---- MODULE Spec2Model ----
(***************************************************************************)
(* AITradeGame: the ledger store (src/database.py, class Database) and the *)
(* web application with its background trading loop (src/app.py).          *)
(*                                                                         *)
(* The specifications share the store's tables:                            *)
(*   Spec         the Database methods called in any order;                *)
(*   SpecExample  the same methods called with amounts of production      *)
(*                size;                                                    *)
(*   SpecApp      the request handlers of app.py interleaved with the      *)
(*                trading_loop thread and the trading cycles they start    *)
(*                (SpecAppWeak and SpecAppFair add the scheduling          *)
(*                fairness of the threads).                                *)
(*                                                                         *)
(* Money is REAL in the code.  The model keeps it exact: every amount a    *)
(* snapshot reports is an integer number of 1/Scale units, where Scale is  *)
(* the least common multiple of the leverages, so that                     *)
(* quantity * avg_price / leverage is computed without rounding.           *)
(***************************************************************************)
EXTENDS Integers, Sequences, FiniteSets, TLC

\* ------------------------------------------------------------------ bounds
MaxModels == 2
MaxPositions == 2
MaxTrades == 2
\* The store holds at most MaxRows position, trade, conversation and
\* account-value rows in total.
MaxRows == 3
MaxLeverage == 2
MaxPrice == 2
MaxCapital == 2
MaxPnl == 1

Ids == 1..MaxModels
Coins == {"BTC", "ETH"}
Sides == {"long", "short"}
Leverages == 0..MaxLeverage
Prices == 1..MaxPrice
Capitals == 1..MaxCapital
Pnls == (0 - MaxPnl)..MaxPnl

\* The (quantity, avg_price, leverage) arguments update_position is called
\* with: a zero quantity, a zero leverage, a fractional margin (1 * 1 / 2)
\* and two average prices are among them.
Sizings ==
    {<<q, a, l>> \in (0..1) \X Prices \X Leverages :
        \/ q = 1 /\ a = 1
        \/ q = 1 /\ l = MaxLeverage
        \/ q = 0 /\ a = 1 /\ l = 1}

\* ----------------------------------------------------------------- helpers
RECURSIVE Gcd(_, _)
Gcd(a, b) == IF b = 0 THEN a ELSE Gcd(b, a % b)

RECURSIVE LcmUpTo(_)
LcmUpTo(n) == IF n <= 1 THEN 1 ELSE (LcmUpTo(n - 1) * n) \div Gcd(LcmUpTo(n - 1), n)

\* One unit of money is Scale snapshot units.
Scale == LcmUpTo(MaxLeverage)

RECURSIVE SumSeq(_)
SumSeq(s) == IF s = <<>> THEN 0 ELSE Head(s) + SumSeq(Tail(s))

MapSeq(s, F(_)) == [i \in 1..Len(s) |-> F(s[i])]

\* --------------------------------------------------------------- variables
VARIABLES
    \* ---- the store (src/database.py)
    models,          \* table models: id -> row
    nextId,          \* AUTOINCREMENT counter of table models
    portfolios,      \* table portfolios: rows in rowid order
    trades,          \* table trades: rows in rowid order
    conversations,   \* table conversations: rows in rowid order
    account_values,  \* table account_values: rows in rowid order
    \* ---- the application (src/app.py)
    trading_engines, \* the registry: an insertion-ordered dict, as its item list
    auto_trading,    \* the module's shutdown flag
    lpc,             \* trading_loop: where the thread is
    snapshot,        \* trading_loop: list(trading_engines.items())
    idx,             \* trading_loop: position of the for loop in snapshot
    rpc,             \* request thread: where the handler is
    rid,             \* request thread: the handler's model_id
    response,        \* request thread: the response its handler returns
    \* ---- the request threads of the server (one handler each at a time)
    hpc,             \* thread -> where its handler is
    hid,             \* thread -> the handler's model_id
    hrow,            \* thread -> the handler's model / updated_model (get_model)
    \* ---- the trading cycles (execute_trading_cycle), one frame per caller
    lock,            \* model ids whose execution mutex is held
    phase,           \* caller -> state of its cycle
    entry,           \* caller -> the registry item whose cycle it runs
    basis,           \* caller -> number of the model's trades its valuation saw
    \* ---- history variables
    decided,         \* for each row of trades, the basis it was decided on
    torn,            \* a position change was persisted and its trade row was lost
    invoked,         \* model ids whose cycle the current sweep has invoked
    sweepFailed,     \* a cycle of the current sweep raised or returned success = false
    regAtSnap,       \* the registry as it was when snapshot was taken
    writer           \* model id -> the handler that wrote its engine's ai_trader last

histVars == <<conversations, account_values>>
storeVars == <<models, nextId, portfolios, trades, histVars>>
loopVars == <<lpc, snapshot, idx, invoked, sweepFailed, regAtSnap>>
reqVars == <<rpc, rid, response>>
cycleVars == <<lock, phase, entry, basis, decided, torn>>
handlerVars == <<hpc, hid, hrow, writer>>
appVars == <<trading_engines, auto_trading, loopVars, reqVars, cycleVars, handlerVars>>
vars == <<storeVars, appVars>>

\* ============================================================ the Database
\* Database.add_model: INSERT INTO models, the id is cursor.lastrowid.
db_add_model(tbl, id, name, api_key, api_url, model_name, initial_capital) ==
    [m \in DOMAIN tbl \cup {id} |->
        IF m = id
        THEN [name |-> name, api_key |-> api_key, api_url |-> api_url,
              model_name |-> model_name, initial_capital |-> initial_capital]
        ELSE tbl[m]]

\* Database.get_model: <<row>>, or << >> for None.
db_get_model(tbl, id) == IF id \in DOMAIN tbl THEN <<tbl[id]>> ELSE << >>

\* An optional argument is << >> for None and <<v>> for the value v.
None == << >>
Some(v) == <<v>>
IsGiven(arg) == arg # << >>

\* An UPDATE whose SET list always resets initial_capital to its default.
SetFieldResetsCapital(row, field, arg) ==
    IF IsGiven(arg)
    THEN [[row EXCEPT !.initial_capital = 1] EXCEPT ![field] = arg[1]]
    ELSE row

\* Lines 158-172: a field whose argument is not None is in the SET list.
SetField(row, field, arg) == IF IsGiven(arg) THEN [row EXCEPT ![field] = arg[1]] ELSE row

\* Database.update_model: UPDATE models SET <given fields> WHERE id = ?, and
\* no statement at all when no field is given.
db_update_model(tbl, id, name, api_key, api_url, model_name, initial_capital) ==
    [m \in DOMAIN tbl |->
        IF m = id
        THEN SetField(SetField(SetField(SetField(SetField(tbl[m],
                 "name", name), "api_key", api_key), "api_url", api_url),
                 "model_name", model_name), "initial_capital", initial_capital)
        ELSE tbl[m]]

\* Database.update_model, the value returned: False when no field is given
\* (line 174) or no row has the id (lines 187-190).
db_update_model_returns(tbl, id, name, api_key, api_url, model_name, initial_capital) ==
    /\ \E arg \in {name, api_key, api_url, model_name, initial_capital} : IsGiven(arg)
    /\ id \in DOMAIN tbl

\* A DELETE without its WHERE clause.
DeleteRowsOfAll(rows, id) == << >>

\* DELETE FROM <table> WHERE model_id = ?
DeleteRowsOf(rows, id) == SelectSeq(rows, LAMBDA r : r.model_id # id)

\* Database.delete_model, table models.
db_delete_model(tbl, id) == [m \in DOMAIN tbl \ {id} |-> tbl[m]]

\* A conflict target that leaves the side out.
SameKeyIgnoringSide(r, model_id, coin, side) ==
    r.model_id = model_id /\ r.coin = coin

SameKey(r, model_id, coin, side) ==
    r.model_id = model_id /\ r.coin = coin /\ r.side = side

\* Database.update_position: INSERT ... ON CONFLICT(model_id, coin, side) DO UPDATE.
update_position(rows, model_id, coin, quantity, avg_price, leverage, side) ==
    LET new == [model_id |-> model_id, coin |-> coin, side |-> side,
                quantity |-> quantity, avg_price |-> avg_price, leverage |-> leverage]
    IN IF \E i \in 1..Len(rows) : SameKey(rows[i], model_id, coin, side)
       THEN [i \in 1..Len(rows) |->
                IF SameKey(rows[i], model_id, coin, side) THEN new ELSE rows[i]]
       ELSE Append(rows, new)

\* Database.close_position: DELETE FROM portfolios WHERE model_id, coin, side.
close_position(rows, model_id, coin, side) ==
    SelectSeq(rows, LAMBDA r : ~SameKey(r, model_id, coin, side))

\* An INSERT OR REPLACE that reuses the id of the last row.
add_trade_replacing(rows, model_id, pnl) ==
    IF rows = << >>
    THEN <<[model_id |-> model_id, pnl |-> pnl]>>
    ELSE [rows EXCEPT ![Len(rows)] = [model_id |-> model_id, pnl |-> pnl]]

\* Database.add_trade: INSERT INTO trades.
add_trade(rows, model_id, pnl) == Append(rows, [model_id |-> model_id, pnl |-> pnl])

\* Database.add_conversation: INSERT INTO conversations.
add_conversation(rows, model_id, ai_response) ==
    Append(rows, [model_id |-> model_id, ai_response |-> ai_response])

\* Database.record_account_value: INSERT INTO account_values.
record_account_value(rows, model_id, total_value, cash, positions_value) ==
    Append(rows, [model_id |-> model_id, total_value |-> total_value,
                  cash |-> cash, positions_value |-> positions_value])

\* ---------------------------------------------------------- get_portfolio
\* SELECT * FROM portfolios WHERE model_id = ? AND quantity > 0
OpenPositions(rows, model_id) ==
    SelectSeq(rows, LAMBDA r : r.model_id = model_id /\ r.quantity > 0)

TradesOf(rows, model_id) == SelectSeq(rows, LAMBDA r : r.model_id = model_id)

\* SELECT COALESCE(SUM(pnl), 0) FROM trades WHERE model_id = ?
RealizedPnl(rows, model_id) ==
    SumSeq(MapSeq(TradesOf(rows, model_id), LAMBDA r : r.pnl))

\* A margin computed at the highest leverage whatever the position's is.
MarginAtMaxLeverage(p) == p.quantity * p.avg_price * (Scale \div MaxLeverage)

\* p['quantity'] * p['avg_price'] / p['leverage'], in 1/Scale units.
Margin(p) == p.quantity * p.avg_price * (Scale \div p.leverage)

\* A valuation that takes a missing price for the price 0.
ValuedAtZero(p, current_prices) ==
    LET mark == IF p.coin \in DOMAIN current_prices THEN current_prices[p.coin] ELSE 0
    IN p @@ [current_price |-> IF p.coin \in DOMAIN current_prices THEN mark ELSE "None",
             pnl |-> IF p.side = "long"
                     THEN (mark - p.avg_price) * p.quantity
                     ELSE (p.avg_price - mark) * p.quantity]

\* A valuation that computes every position as a long one.
ValuedIgnoringSide(p, current_prices) ==
    IF p.coin \in DOMAIN current_prices
    THEN p @@ [current_price |-> current_prices[p.coin],
               pnl |-> (current_prices[p.coin] - p.avg_price) * p.quantity]
    ELSE p @@ [current_price |-> "None", pnl |-> 0]

\* Lines 247-271: the position with its current_price and pnl.
Valued(p, current_prices) ==
    IF p.coin \in DOMAIN current_prices
    THEN p @@ [current_price |-> current_prices[p.coin],
               pnl |-> IF p.side = "long"
                       THEN (current_prices[p.coin] - p.avg_price) * p.quantity
                       ELSE (p.avg_price - current_prices[p.coin]) * p.quantity]
    ELSE p @@ [current_price |-> "None", pnl |-> 0]

\* A cash figure that forgets the realized P&L.
CashWithoutRealized(initial_capital, realized_pnl, margin_used) ==
    initial_capital - margin_used

\* cash = initial_capital + realized_pnl - margin_used
Cash(initial_capital, realized_pnl, margin_used) ==
    initial_capital + realized_pnl - margin_used

\* Database.get_portfolio on the tables tbl (models), pos (portfolios) and
\* trd (trades).  current_prices is a map coin -> price; the empty map stands
\* for both None and {} (both are falsy at line 246).  Amounts are in
\* 1/Scale units.
get_portfolio(tbl, pos, trd, model_id, current_prices) ==
    LET positions == OpenPositions(pos, model_id)
    IN IF model_id \notin DOMAIN tbl
       THEN [status |-> "TypeError"]            \* fetchone() is None at line 233
       ELSE IF \E i \in 1..Len(positions) : positions[i].leverage = 0
       THEN [status |-> "ZeroDivisionError"]    \* line 242
       ELSE
        LET initial_capital == tbl[model_id].initial_capital * Scale
            realized_pnl == RealizedPnl(trd, model_id) * Scale
            margin_used == SumSeq(MapSeq(positions, Margin))
            valued == MapSeq(positions, LAMBDA p : Valued(p, current_prices))
            unrealized_pnl == SumSeq(MapSeq(valued, LAMBDA p : p.pnl)) * Scale
            cash == Cash(initial_capital, realized_pnl, margin_used)
            positions_value ==
                SumSeq(MapSeq(positions, LAMBDA p : p.quantity * p.avg_price)) * Scale
            total_value == initial_capital + realized_pnl + unrealized_pnl
        IN [status |-> "ok",
            model_id |-> model_id,
            cash |-> cash,
            positions |-> valued,
            positions_value |-> positions_value,
            margin_used |-> margin_used,
            total_value |-> total_value,
            realized_pnl |-> realized_pnl,
            unrealized_pnl |-> unrealized_pnl]

PriceMaps == UNION {[S -> Prices] : S \in SUBSET Coins}

RowCount ==
    Len(portfolios) + Len(trades) + Len(conversations) + Len(account_values)

\* =================================================================== Init
Callers == {"loop", "req"}
Threads == {"t1", "t2"}
NoTrader == [api_key |-> "None", api_url |-> "None", model_name |-> "None"]
NoEngine == [model_id |-> 0, constructed |-> FALSE, ai_trader |-> NoTrader]
NoEntry == [key |-> 0, engine |-> NoEngine]
NoResponse == [code |-> 0, body |-> "None"]

\* The state after db.init_db() on a new database file, with the registry
\* empty and the trading_loop thread started (app.py lines 313-324).
Init ==
    /\ models = << >>
    /\ nextId = 1
    /\ portfolios = << >>
    /\ trades = << >>
    /\ conversations = << >>
    /\ account_values = << >>
    /\ trading_engines = << >>
    /\ auto_trading = TRUE
    /\ lpc = "while"
    /\ snapshot = << >>
    /\ idx = 1
    /\ rpc = "idle"
    /\ rid = 0
    /\ response = NoResponse
    /\ lock = {}
    /\ phase = [c \in Callers |-> "Idle"]
    /\ entry = [c \in Callers |-> NoEntry]
    /\ basis = [c \in Callers |-> 0]
    /\ decided = << >>
    /\ torn = FALSE
    /\ invoked = << >>
    /\ sweepFailed = FALSE
    /\ regAtSnap = << >>
    /\ hpc = [t \in Threads |-> "idle"]
    /\ hid = [t \in Threads |-> 0]
    /\ hrow = [t \in Threads |-> << >>]
    /\ writer = [m \in Ids |-> "none"]

\* ================================================== Spec: the store's methods
\* The arguments update_model is called with: none, each one alone, and the
\* name together with the capital.  A models row is created with the text
\* "a" in its four TEXT columns, and the edits write that text again.
NoEdit ==
    [name |-> None, api_key |-> None, api_url |-> None, model_name |-> None,
     initial_capital |-> None]

Edits ==
    {NoEdit,
     [NoEdit EXCEPT !.name = Some("a")],
     [NoEdit EXCEPT !.api_key = Some("a")],
     [NoEdit EXCEPT !.api_url = Some("a")],
     [NoEdit EXCEPT !.model_name = Some("a")],
     [NoEdit EXCEPT !.name = Some("a"), !.initial_capital = Some(MaxCapital)]}
    \cup {[NoEdit EXCEPT !.initial_capital = Some(c)] : c \in Capitals}

AddModel ==
    \E c \in Capitals :
        /\ nextId <= MaxModels
        /\ models' = db_add_model(models, nextId, "a", "a", "a", "a", c)
        /\ nextId' = nextId + 1
        /\ UNCHANGED <<portfolios, trades, histVars, appVars>>

UpdateModel ==
    \E id \in Ids, e \in Edits :
        /\ models' = db_update_model(models, id, e.name, e.api_key, e.api_url,
                                     e.model_name, e.initial_capital)
        /\ UNCHANGED <<nextId, portfolios, trades, histVars, appVars>>

DeleteModel ==
    \E id \in Ids :
        /\ models' = db_delete_model(models, id)
        /\ portfolios' = DeleteRowsOf(portfolios, id)
        /\ trades' = DeleteRowsOf(trades, id)
        /\ conversations' = DeleteRowsOf(conversations, id)
        /\ account_values' = DeleteRowsOf(account_values, id)
        /\ UNCHANGED <<nextId, appVars>>

UpdatePosition ==
    \E id \in Ids, coin \in Coins, z \in Sizings, s \in Sides :
        /\ portfolios' = update_position(portfolios, id, coin, z[1], z[2], z[3], s)
        /\ Len(portfolios') <= MaxPositions
        /\ Len(portfolios') - Len(portfolios) + RowCount <= MaxRows
        /\ UNCHANGED <<models, nextId, trades, histVars, appVars>>

ClosePosition ==
    \E id \in Ids, coin \in Coins, s \in Sides :
        /\ portfolios' = close_position(portfolios, id, coin, s)
        /\ UNCHANGED <<models, nextId, trades, histVars, appVars>>

AddTrade ==
    \E id \in Ids, p \in Pnls :
        /\ Len(trades) < MaxTrades
        /\ RowCount < MaxRows
        /\ trades' = add_trade(trades, id, p)
        /\ UNCHANGED <<models, nextId, portfolios, histVars, appVars>>

AddConversation ==
    \E id \in Ids :
        /\ RowCount < MaxRows
        /\ conversations' = add_conversation(conversations, id, "a")
        /\ UNCHANGED <<models, nextId, portfolios, trades, account_values, appVars>>

\* The caller records the total value, cash and positions value of a
\* snapshot it has taken before; the row keeps what it is given.
RecordAccountValue ==
    \E id \in Ids :
        /\ RowCount < MaxRows
        /\ account_values' =
               record_account_value(account_values, id, MaxCapital, MaxCapital, 0)
        /\ UNCHANGED <<models, nextId, portfolios, trades, conversations, appVars>>

NextStore ==
    \/ AddModel
    \/ UpdateModel
    \/ DeleteModel
    \/ UpdatePosition
    \/ ClosePosition
    \/ AddTrade
    \/ AddConversation
    \/ RecordAccountValue

Spec == Init /\ [][NextStore]_vars

\* ===================================== SpecExample: the ledger at full scale
\* The same Database methods, called with amounts of the size the accounts
\* have in production: a capital of 100000 or 50000 (add_model; app.py line
\* 37 takes 100000 when the request gives none), one coin bought or sold
\* short at 50000 or 55000 with leverage 1 or 2, closed with a profit or a
\* loss of 5000.
ExampleCapitals == {100000, 50000}
ExamplePrices == {50000, 55000}
ExamplePnls == {5000, 0 - 5000}
ExampleLeverages == 1..MaxLeverage

ExampleAddModel ==
    \E c \in ExampleCapitals :
        /\ nextId <= MaxModels
        /\ models' = db_add_model(models, nextId, "a", "a", "a", "a", c)
        /\ nextId' = nextId + 1
        /\ UNCHANGED <<portfolios, trades, histVars, appVars>>

ExampleUpdatePosition ==
    \E id \in DOMAIN models, coin \in Coins, a \in ExamplePrices,
       l \in ExampleLeverages, s \in Sides :
        /\ portfolios' = update_position(portfolios, id, coin, 1, a, l, s)
        /\ Len(portfolios') <= MaxPositions
        /\ Len(portfolios') - Len(portfolios) + RowCount <= MaxRows
        /\ UNCHANGED <<models, nextId, trades, histVars, appVars>>

ExampleClosePosition ==
    \E id \in DOMAIN models, coin \in Coins, s \in Sides :
        /\ portfolios' = close_position(portfolios, id, coin, s)
        /\ UNCHANGED <<models, nextId, trades, histVars, appVars>>

ExampleAddTrade ==
    \E id \in DOMAIN models, p \in ExamplePnls :
        /\ Len(trades) < MaxTrades
        /\ RowCount < MaxRows
        /\ trades' = add_trade(trades, id, p)
        /\ UNCHANGED <<models, nextId, portfolios, histVars, appVars>>

NextExample ==
    \/ ExampleAddModel
    \/ ExampleUpdatePosition
    \/ ExampleClosePosition
    \/ ExampleAddTrade

SpecExample == Init /\ [][NextExample]_vars

\* ======================================================= the engine registry
\* trading_engines is a dict; Python dicts keep insertion order, so the model
\* keeps the item list: a sequence of [key, engine].
Keys(reg) == {reg[i].key : i \in 1..Len(reg)}

\* AITrader(api_key=model['api_key'], api_url=model['api_url'],
\* model_name=model['model_name']).
AITrader(model) ==
    [api_key |-> model.api_key, api_url |-> model.api_url, model_name |-> model.model_name]

\* TradingEngine(model_id=..., db=db, market_fetcher=..., ai_trader=AITrader(...)):
\* the constructor call is evaluated before the dict is assigned to.
NewEngine(model_id, ai_trader) ==
    [model_id |-> model_id, constructed |-> TRUE, ai_trader |-> ai_trader]

\* trading_engines[model_id] = engine
RegistryPut(reg, model_id, engine) ==
    IF model_id \in Keys(reg)
    THEN [i \in 1..Len(reg) |->
            IF reg[i].key = model_id THEN [key |-> model_id, engine |-> engine] ELSE reg[i]]
    ELSE Append(reg, [key |-> model_id, engine |-> engine])

\* if model_id in trading_engines: del trading_engines[model_id]
RegistryDel(reg, model_id) == SelectSeq(reg, LAMBDA e : e.key # model_id)

\* trading_engines[model_id]
RegistryGet(reg, model_id) ==
    reg[CHOOSE i \in 1..Len(reg) : reg[i].key = model_id]

\* list(trading_engines.items()): a copy of the item list, made in one step.
RegistryItems(reg) == reg

\* A for loop over the live dict instead of a copy: the i-th item the registry
\* holds now, and no item when the dict has shrunk meanwhile.
LoopItemLive(snap, reg, i) == IF i <= Len(reg) THEN reg[i] ELSE NoEntry

\* The item the for loop of trading_loop binds to (model_id, engine) in its
\* i-th iteration: the i-th item of the copy, whatever the registry holds now.
LoopItem(snap, reg, i) == snap[i]

\* ============================================ the trading cycle of one model
\* CycleOrchestrator.run / TradingEngine.execute_trading_cycle.
\* A frame is Idle, runs through Locking, Valuing, Executing, Recording and
\* Snapshotting, and ends Done, Failed (success = false), Raised (an
\* exception) or Rejected (ConcurrentExecutionError).
Terminal == {"Done", "Failed", "Raised", "Rejected"}
InBody == {"Valuing", "Executing", "Recording", "Snapshotting"}

\* A lock that is granted to every caller.
TryLockAlways(held, model_id) == [acquired |-> TRUE, held |-> held \cup {model_id}]

\* Locking: the per-model execution mutex is tried, never waited for.
TryLock(held, model_id) ==
    IF model_id \in held
    THEN [acquired |-> FALSE, held |-> held]
    ELSE [acquired |-> TRUE, held |-> held \cup {model_id}]

CycleLock(c) ==
    /\ phase[c] = "Locking"
    /\ LET r == TryLock(lock, entry[c].key)
       IN /\ lock' = r.held
          /\ phase' = [phase EXCEPT ![c] = IF r.acquired THEN "Valuing" ELSE "Rejected"]
    /\ UNCHANGED <<storeVars, trading_engines, auto_trading, loopVars, reqVars,
                   entry, basis, decided, torn,
                   handlerVars>>

\* Valuing and Deciding: get_portfolio for the model, then the oracle's signal
\* (hold or open_long).  A failed valuation (the model has no row, a provider
\* is down) fails the cycle: success = false or an exception.
CycleValue(c) ==
    /\ phase[c] = "Valuing"
    /\ LET m == entry[c].key
           snap == get_portfolio(models, portfolios, trades, m, << >>)
       IN \/ /\ snap.status = "ok"
             /\ basis' = [basis EXCEPT ![c] = Len(TradesOf(trades, m))]
             /\ \E next \in {"Executing", "Snapshotting"} :
                    phase' = [phase EXCEPT ![c] = next]
             /\ UNCHANGED lock
          \/ /\ \E end \in {"Failed", "Raised"} : phase' = [phase EXCEPT ![c] = end]
             /\ lock' = lock \ {m}
             /\ UNCHANGED basis
    /\ UNCHANGED <<storeVars, trading_engines, auto_trading, loopVars, reqVars,
                   entry, decided, torn,
                   handlerVars>>

\* Executing, first write: the position (update_position commits on its own).
\* A signal the store has no room for is rejected like a MarginError.
CycleExecute(c) ==
    /\ phase[c] = "Executing"
    /\ LET m == entry[c].key
           after == update_position(portfolios, m, "BTC", 1, 1, 1, "long")
       IN IF /\ Len(after) <= MaxPositions
             /\ Len(trades) < MaxTrades
             /\ Len(after) - Len(portfolios) + RowCount < MaxRows
          THEN /\ portfolios' = after
               /\ phase' = [phase EXCEPT ![c] = "Recording"]
          ELSE /\ phase' = [phase EXCEPT ![c] = "Snapshotting"]
               /\ UNCHANGED portfolios
    /\ UNCHANGED <<models, nextId, trades, histVars, trading_engines, auto_trading,
                   loopVars, reqVars, lock, entry, basis, decided, torn,
                   handlerVars>>

\* Executing, second write: the trade row (add_trade commits on its own), or
\* the write fails and the cycle fails with the position already changed.
CycleRecord(c) ==
    /\ phase[c] = "Recording"
    /\ LET m == entry[c].key
       IN \/ /\ Len(trades) < MaxTrades
             /\ RowCount < MaxRows
             /\ trades' = add_trade(trades, m, 0)
             /\ decided' = Append(decided, [model_id |-> m, basis |-> basis[c]])
             /\ phase' = [phase EXCEPT ![c] = "Snapshotting"]
             /\ UNCHANGED <<lock, torn>>
          \/ /\ \E end \in {"Failed", "Raised"} : phase' = [phase EXCEPT ![c] = end]
             /\ lock' = lock \ {m}
             /\ torn' = TRUE
             /\ UNCHANGED <<trades, decided>>
    /\ UNCHANGED <<models, nextId, portfolios, histVars, trading_engines, auto_trading,
                   loopVars, reqVars, entry, basis,
                   handlerVars>>

\* Snapshotting, release of the mutex, return of the result.
CycleSnapshot(c) ==
    /\ phase[c] = "Snapshotting"
    /\ lock' = lock \ {entry[c].key}
    /\ phase' = [phase EXCEPT ![c] = "Done"]
    /\ UNCHANGED <<storeVars, trading_engines, auto_trading, loopVars, reqVars,
                   entry, basis, decided, torn,
                   handlerVars>>

CycleStep(c) ==
    \/ CycleLock(c)
    \/ CycleValue(c)
    \/ CycleExecute(c)
    \/ CycleRecord(c)
    \/ CycleSnapshot(c)

\* The caller takes the result: its frame is gone.
Returned(c) ==
    /\ phase' = [phase EXCEPT ![c] = "Idle"]
    /\ entry' = [entry EXCEPT ![c] = NoEntry]
    /\ basis' = [basis EXCEPT ![c] = 0]

\* ============================================================ trading_loop
\* Line 205: while auto_trading.
LoopWhile ==
    /\ lpc = "while"
    /\ lpc' = IF auto_trading THEN "check" ELSE "stopped"
    /\ UNCHANGED <<storeVars, trading_engines, auto_trading, snapshot, idx, invoked,
                   sweepFailed, regAtSnap, reqVars, cycleVars,
                   handlerVars>>

\* A loop without the test of line 207: it always goes on to the sweep.
AfterCheckSweepsAlways(reg) == "snap"

\* Line 207: if not trading_engines.
AfterCheck(reg) == IF reg = << >> THEN "idle_sleep" ELSE "snap"

\* Lines 207-209: if not trading_engines: time.sleep(30); continue.
LoopCheck ==
    /\ lpc = "check"
    /\ lpc' = AfterCheck(trading_engines)
    /\ UNCHANGED <<storeVars, trading_engines, auto_trading, snapshot, idx, invoked,
                   sweepFailed, regAtSnap, reqVars, cycleVars,
                   handlerVars>>

\* Line 216: list(trading_engines.items()).
LoopSnapshot ==
    /\ lpc = "snap"
    /\ snapshot' = RegistryItems(trading_engines)
    /\ regAtSnap' = trading_engines
    /\ idx' = 1
    /\ invoked' = << >>
    /\ sweepFailed' = FALSE
    /\ lpc' = "for"
    /\ UNCHANGED <<storeVars, trading_engines, auto_trading, reqVars, cycleVars,
                   handlerVars>>

\* Lines 216-219: the next item, engine.execute_trading_cycle() is called; or
\* the list is exhausted.
LoopFor ==
    /\ lpc = "for"
    /\ IF idx <= Len(snapshot)
       THEN /\ entry' = [entry EXCEPT !["loop"] = LoopItem(snapshot, trading_engines, idx)]
            /\ phase' = [phase EXCEPT !["loop"] = "Locking"]
            /\ invoked' = Append(invoked, entry'["loop"].key)
            /\ lpc' = "cycle"
       ELSE /\ lpc' = "post"
            /\ UNCHANGED <<entry, phase, invoked>>
    /\ UNCHANGED <<storeVars, trading_engines, auto_trading, snapshot, idx, sweepFailed,
                   regAtSnap, reqVars, lock, basis, decided, torn,
                   handlerVars>>

\* A per-model handler that lets the exception through to the outer handler.
AfterCycleEscapes(p) == IF p = "Raised" THEN "backoff" ELSE "for"

\* A per-model handler that ends the for loop (break for continue).
AfterCycleBreaks(p) == IF p = "Raised" THEN "post" ELSE "for"

\* Where trading_loop goes when the cycle it called has ended in phase p:
\* lines 221-232 for a result, lines 234-238 for an exception.  Both go on
\* with the next item.
AfterCycle(p) == "for"

LoopHandle ==
    /\ lpc = "cycle"
    /\ phase["loop"] \in Terminal
    /\ lpc' = AfterCycle(phase["loop"])
    /\ idx' = idx + 1
    /\ sweepFailed' = (sweepFailed \/ phase["loop"] \in {"Failed", "Raised"})
    /\ Returned("loop")
    /\ UNCHANGED <<storeVars, trading_engines, auto_trading, snapshot, invoked,
                   regAtSnap, reqVars, lock, decided, torn,
                   handlerVars>>

\* The for statement has ended: its list is released (and the history of the
\* sweep with it).
SweepOver ==
    /\ snapshot' = << >>
    /\ idx' = 1
    /\ invoked' = << >>
    /\ sweepFailed' = FALSE
    /\ regAtSnap' = << >>

\* Lines 240-244: the sweep is over, time.sleep(180) begins.
LoopPost ==
    /\ lpc = "post"
    /\ lpc' = "sleep"
    /\ SweepOver
    /\ UNCHANGED <<storeVars, trading_engines, auto_trading, reqVars, cycleVars,
                   handlerVars>>

\* A loop whose try statement is outside the while: an error ends it.
OnLoopErrorStops == "stopped"

\* Where an exception raised in the body of the outer try, outside the
\* per-model try, takes the loop: lines 246-251, time.sleep(60).
OnLoopError == "backoff"

\* A statement of the outer try's body outside the per-model try raises
\* (lines 207-216 before the sweep, lines 240-244 after it).
LoopRaise ==
    /\ lpc \in {"check", "snap", "post"}
    /\ lpc' = OnLoopError
    /\ SweepOver
    /\ UNCHANGED <<storeVars, trading_engines, auto_trading, reqVars, cycleVars,
                   handlerVars>>

\* A loop that goes on with the next sweep after the inter-cycle sleep
\* without looking at auto_trading.
AfterSleepSkipsCheck(pc) == IF pc = "sleep" THEN "check" ELSE "while"

\* Where the loop goes when a sleep is over: time.sleep(30); continue,
\* time.sleep(180) and time.sleep(60) all end an iteration of the while.
AfterSleep(pc) == "while"

LoopWake ==
    /\ lpc \in {"idle_sleep", "sleep", "backoff"}
    /\ lpc' = AfterSleep(lpc)
    /\ UNCHANGED <<storeVars, trading_engines, auto_trading, snapshot, idx, invoked,
                   sweepFailed, regAtSnap, reqVars, cycleVars,
                   handlerVars>>

LoopStep ==
    \/ LoopWhile
    \/ LoopCheck
    \/ LoopSnapshot
    \/ LoopFor
    \/ LoopHandle
    \/ LoopPost
    \/ LoopWake

\* ======================================================= the request handlers
\* execute_trading has returned: its response goes out and the thread takes
\* the next request.
ReqRespond ==
    /\ rpc = "respond"
    /\ rpc' = "idle"
    /\ rid' = 0
    /\ response' = NoResponse
    /\ UNCHANGED <<storeVars, trading_engines, auto_trading, loopVars, cycleVars,
                   handlerVars>>

\* add_model, lines 31-38: db.add_model.
ReqAddModel ==
    /\ rpc = "idle"
    /\ nextId <= MaxModels
    /\ models' = db_add_model(models, nextId, "a", "a", "a", "a", MaxCapital)
    /\ nextId' = nextId + 1
    /\ rid' = nextId
    /\ rpc' = "add_engine"
    /\ UNCHANGED <<portfolios, trades, histVars, trading_engines, auto_trading,
                   response, loopVars, cycleVars,
                   handlerVars>>

\* add_model, lines 40-56: the engine is built and registered, or building it
\* raises and the handler only logs; the response is the same message in
\* both cases and is not kept.
ReqAddEngine ==
    /\ rpc = "add_engine"
    /\ \/ trading_engines' =
             RegistryPut(trading_engines, rid, NewEngine(rid, AITrader(models[rid])))
       \/ UNCHANGED trading_engines
    /\ rpc' = "idle"
    /\ rid' = 0
    /\ UNCHANGED <<storeVars, auto_trading, response, loopVars, cycleVars,
                   handlerVars>>

\* delete_model, lines 134-137: db.delete_model.
ReqDeleteModel ==
    \E id \in Ids :
        /\ rpc = "idle"
        /\ models' = db_delete_model(models, id)
        /\ portfolios' = DeleteRowsOf(portfolios, id)
        /\ trades' = DeleteRowsOf(trades, id)
        /\ conversations' = DeleteRowsOf(conversations, id)
        /\ account_values' = DeleteRowsOf(account_values, id)
        /\ decided' = DeleteRowsOf(decided, id)
        /\ rid' = id
        /\ rpc' = "del_engine"
        /\ UNCHANGED <<nextId, trading_engines, auto_trading, response, loopVars, lock,
                       phase, entry, basis, torn,
                   handlerVars>>

\* delete_model, lines 138-142: the engine leaves the registry; the response
\* is a fixed message and is not kept.
ReqDeleteEngine ==
    /\ rpc = "del_engine"
    /\ trading_engines' = RegistryDel(trading_engines, rid)
    /\ rpc' = "idle"
    /\ rid' = 0
    /\ UNCHANGED <<storeVars, auto_trading, response, loopVars, cycleVars,
                   handlerVars>>

\* execute_trading, lines 180-194: 404 for an unknown model, lazy registration
\* of a stored one.
ReqExecute ==
    \E id \in Ids :
        /\ rpc = "idle"
        /\ rid' = id
        /\ IF id \in Keys(trading_engines)
           THEN /\ rpc' = "exec_call"
                /\ UNCHANGED <<trading_engines, response>>
           ELSE IF db_get_model(models, id) = << >>
           THEN /\ rpc' = "respond"
                /\ response' = [code |-> 404, body |-> "Model not found"]
                /\ UNCHANGED trading_engines
           ELSE /\ trading_engines' =
                     RegistryPut(trading_engines, id, NewEngine(id, AITrader(models[id])))
                /\ rpc' = "exec_call"
                /\ UNCHANGED response
        /\ UNCHANGED <<storeVars, auto_trading, loopVars, cycleVars,
                   handlerVars>>

\* execute_trading, line 197: trading_engines[model_id].execute_trading_cycle().
ReqCall ==
    /\ rpc = "exec_call"
    /\ entry' = [entry EXCEPT !["req"] = RegistryGet(trading_engines, rid)]
    /\ phase' = [phase EXCEPT !["req"] = "Locking"]
    /\ rpc' = "exec_cycle"
    /\ UNCHANGED <<storeVars, trading_engines, auto_trading, loopVars, rid, response,
                   lock, basis, decided, torn,
                   handlerVars>>

\* A handler that answers 200 with a body of its own whatever the cycle returned.
ExecuteResponseWrapped(p) ==
    IF p = "Raised"
    THEN [code |-> 500, body |-> "error"]
    ELSE [code |-> 200, body |-> "ok"]

\* execute_trading, lines 196-200: jsonify(result) for the result the cycle
\* returned (the phase its frame ended in), and status 500 with the error
\* for an exception.
ExecuteResponse(p) ==
    IF p = "Raised"
    THEN [code |-> 500, body |-> "error"]
    ELSE [code |-> 200, body |-> p]

ReqReturn ==
    /\ rpc = "exec_cycle"
    /\ phase["req"] \in Terminal
    /\ response' = ExecuteResponse(phase["req"])
    /\ Returned("req")
    /\ rpc' = "respond"
    /\ UNCHANGED <<storeVars, trading_engines, auto_trading, loopVars, rid, lock,
                   decided, torn,
                   handlerVars>>

\* The shutdown signal: auto_trading (line 18) becomes False.
Shutdown ==
    /\ auto_trading
    /\ auto_trading' = FALSE
    /\ UNCHANGED <<storeVars, trading_engines, loopVars, reqVars, cycleVars,
                   handlerVars>>

NextApp ==
    \/ LoopStep
    \/ LoopRaise
    \/ CycleStep("loop")
    \/ CycleStep("req")
    \/ ReqAddModel
    \/ ReqAddEngine
    \/ ReqDeleteModel
    \/ ReqDeleteEngine
    \/ ReqExecute
    \/ ReqCall
    \/ ReqReturn
    \/ ReqRespond
    \/ Shutdown

SpecApp == Init /\ [][NextApp]_vars

\* The threads keep running: the loop thread takes its next step, and a cycle
\* it called returns or raises.  An exception outside the per-model try is a
\* defect that does not strike in every iteration for ever: the registry
\* check of line 207 and the snapshot of line 216 succeed again and again.
LoopThread == LoopStep \/ LoopRaise \/ CycleStep("loop")

SpecAppFair ==
    /\ Init
    /\ [][NextApp]_vars
    /\ WF_vars(LoopThread)
    /\ SF_vars(LoopCheck)
    /\ SF_vars(LoopSnapshot)

\* The loop thread keeps running, and nothing more is assumed: an exception
\* outside the per-model try may strike in every iteration.
SpecAppWeak ==
    /\ Init
    /\ [][NextApp]_vars
    /\ WF_vars(LoopThread)

\* ---------------------------------------------------------------------------
\* The request handlers of app.py, run by the threads of the server
\* (app.run, threaded): each thread runs one handler at a time, one database
\* call or one access to trading_engines per step, in any interleaving with
\* the other thread.
\* ---------------------------------------------------------------------------
ApiKeys == {"a", "b"}

restVars == <<auto_trading, loopVars, reqVars, cycleVars>>

Goto(t, label) == hpc' = [hpc EXCEPT ![t] = label]

\* add_model, lines 31-38: db.add_model commits the row and returns its id.
HAddModel(t) ==
    \E k \in ApiKeys :
        /\ hpc[t] = "idle"
        /\ nextId <= MaxModels
        /\ models' = db_add_model(models, nextId, "a", k, "a", "a", MaxCapital)
        /\ nextId' = nextId + 1
        /\ hid' = [hid EXCEPT ![t] = nextId]
        /\ Goto(t, "add_get")
        /\ UNCHANGED <<portfolios, trades, histVars, trading_engines, hrow, writer,
                       restVars>>

\* add_model, line 41: model = db.get_model(model_id).
HAddGet(t) ==
    /\ hpc[t] = "add_get"
    /\ hrow' = [hrow EXCEPT ![t] = db_get_model(models, hid[t])]
    /\ Goto(t, "add_put")
    /\ UNCHANGED <<storeVars, trading_engines, hid, writer, restVars>>

\* add_model, lines 42-56: the engine is built from the row read and assigned;
\* model['api_key'] of None, or a constructor that raises, is caught and logged.
HAddPut(t) ==
    /\ hpc[t] = "add_put"
    /\ \/ /\ hrow[t] # << >>
          /\ trading_engines' =
                 RegistryPut(trading_engines, hid[t], NewEngine(hid[t], AITrader(hrow[t][1])))
          /\ writer' = [writer EXCEPT ![hid[t]] = "add_model"]
       \/ UNCHANGED <<trading_engines, writer>>
    /\ Goto(t, "idle")
    /\ UNCHANGED <<storeVars, hid, hrow, restVars>>

\* delete_model, lines 134-137: db.get_model serves the log line only;
\* db.delete_model removes the model and its rows and commits.
HDeleteModel(t) ==
    \E id \in Ids :
        /\ hpc[t] = "idle"
        /\ models' = db_delete_model(models, id)
        /\ portfolios' = DeleteRowsOf(portfolios, id)
        /\ trades' = DeleteRowsOf(trades, id)
        /\ conversations' = DeleteRowsOf(conversations, id)
        /\ account_values' = DeleteRowsOf(account_values, id)
        /\ hid' = [hid EXCEPT ![t] = id]
        /\ Goto(t, "del_test")
        /\ UNCHANGED <<nextId, trading_engines, hrow, writer, restVars>>

\* delete_model, line 138: if model_id in trading_engines.
HDeleteTest(t) ==
    /\ hpc[t] = "del_test"
    /\ Goto(t, IF hid[t] \in Keys(trading_engines) THEN "del_del" ELSE "idle")
    /\ UNCHANGED <<storeVars, trading_engines, hid, hrow, writer, restVars>>

\* delete_model, lines 139-145: del trading_engines[model_id]; a key that has
\* gone since the test raises KeyError, which the handler answers with 500.
HDeleteDel(t) ==
    /\ hpc[t] = "del_del"
    /\ trading_engines' = RegistryDel(trading_engines, hid[t])
    /\ writer' = [writer EXCEPT ![hid[t]] = "none"]
    /\ Goto(t, "idle")
    /\ UNCHANGED <<storeVars, hid, hrow, restVars>>

\* execute_trading, line 180: if model_id not in trading_engines.
HExecute(t) ==
    \E id \in Ids :
        /\ hpc[t] = "idle"
        /\ hid' = [hid EXCEPT ![t] = id]
        /\ Goto(t, IF id \notin Keys(trading_engines) THEN "exec_get" ELSE "exec_call")
        /\ UNCHANGED <<storeVars, trading_engines, hrow, writer, restVars>>

\* execute_trading, lines 181-183: model = db.get_model(model_id); 404 when
\* there is none.
HExecGet(t) ==
    /\ hpc[t] = "exec_get"
    /\ hrow' = [hrow EXCEPT ![t] = db_get_model(models, hid[t])]
    /\ Goto(t, IF db_get_model(models, hid[t]) = << >> THEN "idle" ELSE "exec_put")
    /\ UNCHANGED <<storeVars, trading_engines, hid, writer, restVars>>

\* execute_trading, lines 185-194: trading_engines[model_id] = TradingEngine(...)
\* built from the row read at line 181.
HExecPut(t) ==
    /\ hpc[t] = "exec_put"
    /\ trading_engines' =
           RegistryPut(trading_engines, hid[t], NewEngine(hid[t], AITrader(hrow[t][1])))
    /\ writer' = [writer EXCEPT ![hid[t]] = "execute_trading"]
    /\ Goto(t, "exec_call")
    /\ UNCHANGED <<storeVars, hid, hrow, restVars>>

\* execute_trading, lines 196-200: trading_engines[model_id].execute_trading_cycle()
\* and the response; KeyError when the key has gone is answered with 500. The
\* cycle is the one of CycleStep; here only its call and its return are kept.
HExecCall(t) ==
    /\ hpc[t] = "exec_call"
    /\ Goto(t, "idle")
    /\ UNCHANGED <<storeVars, trading_engines, hid, hrow, writer, restVars>>

\* update_model, lines 100-113: db.update_model writes the given field and
\* commits; when it returns False the handler answers 404 or 400.
HUpdateModel(t) ==
    \E id \in Ids, k \in ApiKeys :
        /\ hpc[t] = "idle"
        /\ models' = db_update_model(models, id, None, Some(k), None, None, None)
        /\ hid' = [hid EXCEPT ![t] = id]
        /\ Goto(t, IF db_update_model_returns(models, id, None, Some(k), None, None, None)
                   THEN "upd_get" ELSE "idle")
        /\ UNCHANGED <<nextId, portfolios, trades, histVars, trading_engines, hrow,
                       writer, restVars>>

\* update_model, line 115: updated_model = db.get_model(model_id).
HUpdateGet(t) ==
    /\ hpc[t] = "upd_get"
    /\ hrow' = [hrow EXCEPT ![t] = db_get_model(models, hid[t])]
    /\ Goto(t, "upd_test")
    /\ UNCHANGED <<storeVars, trading_engines, hid, writer, restVars>>

\* update_model, line 116: if model_id in trading_engines and updated_model.
HUpdateTest(t) ==
    /\ hpc[t] = "upd_test"
    /\ Goto(t, IF hid[t] \in Keys(trading_engines) /\ hrow[t] # << >>
               THEN "upd_set" ELSE "idle")
    /\ UNCHANGED <<storeVars, trading_engines, hid, hrow, writer, restVars>>

\* trading_engines[model_id].ai_trader = ai_trader
SetTrader(reg, model_id, ai_trader) ==
    [i \in 1..Len(reg) |->
        IF reg[i].key = model_id
        THEN [reg[i] EXCEPT !.engine.ai_trader = ai_trader]
        ELSE reg[i]]

\* update_model, lines 117-129: the engine's ai_trader is replaced by one built
\* from the row read at line 115; KeyError when the key has gone since the
\* test is answered with 500.
HUpdateSet(t) ==
    /\ hpc[t] = "upd_set"
    /\ IF hid[t] \in Keys(trading_engines)
       THEN /\ trading_engines' = SetTrader(trading_engines, hid[t], AITrader(hrow[t][1]))
            /\ writer' = [writer EXCEPT ![hid[t]] = "update_model"]
       ELSE UNCHANGED <<trading_engines, writer>>
    /\ Goto(t, "idle")
    /\ UNCHANGED <<storeVars, hid, hrow, restVars>>

NextHandlers ==
    \E t \in Threads :
        \/ HAddModel(t)
        \/ HAddGet(t)
        \/ HAddPut(t)
        \/ HDeleteModel(t)
        \/ HDeleteTest(t)
        \/ HDeleteDel(t)
        \/ HExecute(t)
        \/ HExecGet(t)
        \/ HExecPut(t)
        \/ HExecCall(t)
        \/ HUpdateModel(t)
        \/ HUpdateGet(t)
        \/ HUpdateTest(t)
        \/ HUpdateSet(t)

SpecHandlers == Init /\ [][NextHandlers]_vars

\* ================================================================== claims
Range(s) == {s[i] : i \in 1..Len(s)}
KeySeq(items) == [i \in 1..Len(items) |-> items[i].key]
Sleeps == {"idle_sleep", "sleep", "backoff"}

\* ---- C1
MutualExclusion ==
    \A c1 \in Callers, c2 \in Callers :
        (c1 # c2 /\ phase[c1] \in InBody /\ phase[c2] \in InBody)
            => entry[c1].key # entry[c2].key

NoDuplicateTrade ==
    \A i \in 1..Len(decided), j \in 1..Len(decided) :
        i # j => decided[i] # decided[j]

LoserReturnsAtOnce ==
    \A c \in Callers :
        (phase[c] = "Locking" /\ entry[c].key \in lock)
            => /\ phase'[c] \in {"Locking", "Rejected"}
               /\ phase'[c] = "Rejected" => UNCHANGED <<storeVars, lock, decided>>

\* C1: at most one trading cycle per model is in flight; of a manual execute
\* request and the loop's sweep that call the cycle of one model while it is
\* running, the second is rejected in its locking step, without waiting and
\* without a store write, and no two trade rows of a model were decided on
\* the same state of its ledger.
C1_MutualExclusion ==
    /\ [](MutualExclusion /\ NoDuplicateTrade)
    /\ [][(LoserReturnsAtOnce)]_vars

C1_Witness ==
    /\ phase["loop"] \in InBody
    /\ phase["req"] = "Rejected"
    /\ entry["loop"].key = entry["req"].key
    /\ Len(trades) = MaxTrades

\* ---- C2
C2_TradeSum(id) ==
    SumSeq([i \in 1..Len(trades) |-> IF trades[i].model_id = id THEN trades[i].pnl ELSE 0])

\* C2: every snapshot get_portfolio returns for an existing model satisfies
\* cash + margin_used = initial_capital + realized_pnl, where realized_pnl is
\* the sum of pnl over the model's trade rows (amounts in 1/Scale units).
C2_Conservation ==
    \A id \in Ids, cp \in PriceMaps :
        LET s == get_portfolio(models, portfolios, trades, id, cp)
        IN s.status = "ok" =>
            s.cash + s.margin_used
                = (models[id].initial_capital + C2_TradeSum(id)) * Scale

C2_Witness ==
    \E id \in Ids :
        LET s == get_portfolio(models, portfolios, trades, id, << >>)
        IN /\ s.status = "ok"
           /\ s.margin_used % Scale # 0
           /\ C2_TradeSum(id) # 0
           /\ Len(s.positions) = 2

\* ---- C3
\* C3: in no state of the store is a position change persisted without its
\* trade row: no cycle is between its two writes, and none has lost the
\* second one.
C3_AtomicUnit ==
    /\ ~torn
    /\ \A c \in Callers : phase[c] # "Recording"

\* ---- C4
\* C4: the loop invokes no cycle for an item of its snapshot whose model has
\* been deleted (its engine has left the registry) since the snapshot.
C4_DeletedIsSkipped ==
    [][(lpc = "for" /\ lpc' = "cycle")
          => entry'["loop"].key \in Keys(trading_engines)]_vars

\* ---- C5
\* C5: the loop is stopped only when auto_trading is false, and only from its
\* while test; an exception in a cycle leaves it in the for loop, and the
\* backoff sleep that follows an exception outside the per-model try ends at
\* the while test, which starts another iteration while auto_trading is true.
C5_LoopSurvivesErrors ==
    /\ [](lpc = "stopped" => ~auto_trading)
    /\ [][(lpc' = "stopped" => lpc \in {"while", "stopped"})]_vars
    /\ [][(lpc = "cycle" /\ phase["loop"] = "Raised") => lpc' \in {"cycle", "for"}]_vars
    /\ [][(lpc = "backoff" => lpc' \in {"backoff", "while"})]_vars
    /\ [][(lpc = "while" /\ auto_trading) => lpc' \in {"while", "check"}]_vars

C5_Witness == lpc = "backoff" /\ auto_trading /\ trades # << >>

\* ---- C6
\* C6: when a cycle of the sweep raises or returns success = false, the
\* loop's next step is back in the for loop at the next item of the same
\* snapshot, and from the for loop with items left its next step calls the
\* cycle of the next item: no sleep in between.
C6_FailureIsolation ==
    /\ [][(lpc = "cycle" /\ phase["loop"] \in {"Failed", "Raised"} /\ lpc' # "cycle")
            => (lpc' = "for" /\ idx' = idx + 1 /\ snapshot' = snapshot)]_vars
    /\ [][(lpc = "for" /\ idx <= Len(snapshot) /\ lpc' # "for")
            => (lpc' = "cycle" /\ entry'["loop"] = snapshot[idx]
                /\ phase'["loop"] = "Locking")]_vars

C6_Witness ==
    /\ sweepFailed
    /\ lpc = "cycle"
    /\ idx = 2
    /\ phase["loop"] \in InBody

\* ---- C7
InvokedNow(m) == lpc = "cycle" /\ phase["loop"] = "Locking" /\ entry["loop"].key = m

C8_Shutdown ==
    /\ (~auto_trading) ~> (lpc = "stopped")
    /\ [][(lpc \in Sleeps => lpc' \in Sleeps \cup {"while"})]_vars
    /\ [][(~auto_trading /\ lpc = "while") => lpc' \in {"while", "stopped"}]_vars
    /\ [][(~auto_trading /\ lpc = "cycle" /\ phase["loop"] \notin Terminal)
            => (lpc' = "cycle" /\ phase'["loop"] # "Idle"
                /\ entry'["loop"] = entry["loop"])]_vars

C8_Witness == lpc = "stopped" /\ Len(trades) = MaxTrades

\* ---- C9
Complete(e) ==
    /\ e.key \in Ids
    /\ e.engine.model_id = e.key
    /\ e.engine.constructed

\* C9: every item of the loop's snapshot, and the item whose cycle the loop
\* is running, is a complete (model id, engine) pair that was in the registry
\* when the snapshot was taken, whatever add_model, delete_model and
\* execute_trading have done to the registry since.
C9_SnapshotItems ==
    /\ \A i \in 1..Len(snapshot) :
          snapshot[i] \in Range(regAtSnap) /\ Complete(snapshot[i])
    /\ lpc = "cycle" =>
          entry["loop"] \in Range(regAtSnap) /\ Complete(entry["loop"])

C9_Witness ==
    /\ lpc = "cycle"
    /\ idx = 2
    /\ entry["loop"].key \notin Keys(trading_engines)
    /\ Len(trading_engines) = 1

\* ---- C10
\* C10: every stored position row has quantity > 0.
C10_PositiveQuantity ==
    \A i \in 1..Len(portfolios) : portfolios[i].quantity > 0

\* ---- C11
\* C11: get_portfolio for a model id that has no row in models fails with an
\* error that says the model was not found.
C11_UnknownIsNotFound ==
    \A id \in Ids \ DOMAIN models, cp \in PriceMaps :
        get_portfolio(models, portfolios, trades, id, cp).status = "NotFound"

\* ---- C12
C12_Pnl(p, mark) ==
    IF p.side = "long" THEN (mark - p.avg_price) * p.quantity
                       ELSE (p.avg_price - mark) * p.quantity

C12_ItemOk(p, cp) ==
    IF p.coin \in DOMAIN cp
    THEN p.current_price = cp[p.coin] /\ p.pnl = C12_Pnl(p, cp[p.coin])
    ELSE p.current_price = "None" /\ p.pnl = 0

\* C12: whether get_portfolio of an existing model succeeds does not depend
\* on the price map: with any coins missing from it, or no map at all, the
\* outcome is the one of the valuation without prices, and the valuation of
\* the positions (lines 244-271) raises nothing.  In the snapshot a position
\* whose coin has no price has pnl 0 and no current price, every other
\* position has its price and its pnl, and unrealized_pnl is the sum over the
\* priced positions.  (Amounts in 1/Scale units.)
C12_MissingPriceTolerance ==
    \A id \in DOMAIN models, cp \in PriceMaps :
        LET s == get_portfolio(models, portfolios, trades, id, cp)
            open == OpenPositions(portfolios, id)
        IN /\ s.status = get_portfolio(models, portfolios, trades, id, << >>).status
           /\ (\A i \in 1..Len(open) : open[i].leverage # 0) => s.status = "ok"
           /\ s.status = "ok" =>
                /\ Len(s.positions) = Len(open)
                /\ \A i \in 1..Len(open) :
                      /\ C12_ItemOk(s.positions[i], cp)
                      /\ s.positions[i].coin = open[i].coin
                      /\ s.positions[i].side = open[i].side
                /\ s.unrealized_pnl =
                      Scale * SumSeq([i \in 1..Len(open) |->
                                        IF open[i].coin \in DOMAIN cp
                                        THEN s.positions[i].pnl ELSE 0])

C12_Witness ==
    \E id \in DOMAIN models, cp \in PriceMaps :
        LET s == get_portfolio(models, portfolios, trades, id, cp)
        IN /\ s.status = "ok"
           /\ Len(s.positions) = 2
           /\ s.positions[1].coin \notin DOMAIN cp
           /\ s.positions[1].avg_price > 0
           /\ s.positions[2].coin \in DOMAIN cp
           /\ s.positions[2].pnl # 0

\* ---- C13
C13_Unrealized(id, cp) ==
    SumSeq([i \in 1..Len(portfolios) |->
        LET p == portfolios[i]
        IN IF p.model_id = id /\ p.quantity > 0 /\ p.coin \in DOMAIN cp
           THEN IF p.side = "long"
                THEN (cp[p.coin] - p.avg_price) * p.quantity
                ELSE (p.avg_price - cp[p.coin]) * p.quantity
           ELSE 0])

\* The positions with every leverage replaced by l.
C13_Levered(rows, l) == [i \in 1..Len(rows) |-> [rows[i] EXCEPT !.leverage = l]]

\* C13: every snapshot get_portfolio returns has total_value =
\* initial_capital + realized_pnl + unrealized_pnl, where unrealized_pnl is
\* the sum over the open positions that have a price of (mark - avg_price) *
\* quantity for a long one and (avg_price - mark) * quantity for a short one;
\* the same positions at any other leverage, hence with any other
\* margin_used, give the same total_value.  (Amounts in 1/Scale units.)
C13_TotalValue ==
    \A id \in DOMAIN models, cp \in PriceMaps :
        LET s == get_portfolio(models, portfolios, trades, id, cp)
        IN s.status = "ok" =>
            /\ s.unrealized_pnl = C13_Unrealized(id, cp) * Scale
            /\ s.realized_pnl = C2_TradeSum(id) * Scale
            /\ s.total_value =
                  (models[id].initial_capital + C2_TradeSum(id) + C13_Unrealized(id, cp))
                      * Scale
            /\ \A l \in 1..MaxLeverage :
                  LET t == get_portfolio(models, C13_Levered(portfolios, l), trades, id, cp)
                  IN t.total_value = s.total_value

C13_Witness ==
    \E id \in DOMAIN models, cp \in PriceMaps :
        LET s == get_portfolio(models, portfolios, trades, id, cp)
        IN /\ s.status = "ok"
           /\ Len(s.positions) = 2
           /\ s.positions[1].side = "long"
           /\ s.positions[2].side = "short"
           /\ s.positions[1].pnl < 0
           /\ s.positions[2].pnl < 0
           /\ s.margin_used % Scale # 0
           /\ C2_TradeSum(id) # 0

\* ---- C14
C14_Long == [model_id |-> 0, coin |-> "BTC", side |-> "long",
             quantity |-> 1, avg_price |-> 50000, leverage |-> 1]

C14_Opened(id) ==
    /\ id \in DOMAIN models
    /\ models[id].initial_capital = 100000
    /\ SelectSeq(portfolios, LAMBDA r : r.model_id = id) = <<[C14_Long EXCEPT !.model_id = id]>>
    /\ TradesOf(trades, id) = << >>

C14_Closed(id) ==
    /\ id \in DOMAIN models
    /\ models[id].initial_capital = 100000
    /\ SelectSeq(portfolios, LAMBDA r : r.model_id = id) = << >>
    /\ TradesOf(trades, id) = <<[model_id |-> id, pnl |-> 5000]>>

\* C14: a model with initial capital 100000 whose only rows are a long
\* position of 1 BTC at 50000 with leverage 1 has margin_used = 50000 and
\* cash = 50000, and valued with BTC = 55000 it has unrealized_pnl = 5000
\* and total_value = 105000; when its only row is a trade with pnl 5000 (the
\* position closed) it has realized_pnl = 5000, cash = 105000, margin_used =
\* 0 and no position.  (Amounts in 1/Scale units.)
C14_WorkedExample ==
    \A id \in Ids :
        /\ C14_Opened(id) =>
            LET s == get_portfolio(models, portfolios, trades, id, << >>)
                t == get_portfolio(models, portfolios, trades, id,
                                   [c \in {"BTC"} |-> 55000])
            IN /\ s.status = "ok" /\ t.status = "ok"
               /\ s.margin_used = 50000 * Scale
               /\ s.cash = 50000 * Scale
               /\ t.unrealized_pnl = 5000 * Scale
               /\ t.total_value = 105000 * Scale
               /\ t.margin_used = 50000 * Scale
               /\ t.cash = 50000 * Scale
        /\ C14_Closed(id) =>
            LET u == get_portfolio(models, portfolios, trades, id,
                                   [c \in {"BTC"} |-> 55000])
            IN /\ u.status = "ok"
               /\ u.realized_pnl = 5000 * Scale
               /\ u.cash = 105000 * Scale
               /\ u.margin_used = 0
               /\ u.positions = << >>
               /\ u.total_value = 105000 * Scale

C14_Witness == C14_Closed(1) /\ C14_Opened(2)

\* ---- C15
C15_Key(r) == <<r.model_id, r.coin, r.side>>

C15_Unique ==
    \A i \in 1..Len(portfolios), j \in 1..Len(portfolios) :
        i # j => C15_Key(portfolios[i]) # C15_Key(portfolios[j])

\* update_position called in this state, for every argument list: a row of
\* the key is replaced where it is, a missing one is added at the end, and
\* every other row, the one of the opposite side included, stays as it is.
C15_Upsert ==
    \A id \in Ids, coin \in Coins, z \in Sizings, s \in Sides :
        LET after == update_position(portfolios, id, coin, z[1], z[2], z[3], s)
            new == [model_id |-> id, coin |-> coin, side |-> s,
                    quantity |-> z[1], avg_price |-> z[2], leverage |-> z[3]]
            had == \E i \in 1..Len(portfolios) : C15_Key(portfolios[i]) = <<id, coin, s>>
        IN /\ Len(after) = Len(portfolios) + (IF had THEN 0 ELSE 1)
           /\ \A i \in 1..Len(portfolios) :
                 after[i] = IF C15_Key(portfolios[i]) = <<id, coin, s>>
                            THEN new ELSE portfolios[i]
           /\ ~had => after[Len(after)] = new

\* C15: the store never holds two position rows of one (model, coin, side);
\* update_position replaces the row of its key in place or adds one row and
\* changes no other row, so a long and a short row of one (model, coin) live
\* side by side; and in every step a row whose values change stays where it
\* is while no other row changes.
C15_PositionUniqueness ==
    /\ [](C15_Unique /\ C15_Upsert)
    /\ [][(\A i \in 1..Len(portfolios), j \in 1..Len(portfolios') :
             (C15_Key(portfolios[i]) = C15_Key(portfolios'[j])
                 /\ portfolios[i] # portfolios'[j])
             => (/\ i = j
                 /\ Len(portfolios') = Len(portfolios)
                 /\ \A k \in 1..Len(portfolios) : k # i => portfolios'[k] = portfolios[k]))]_vars

C15_Witness ==
    /\ Len(portfolios) = 2
    /\ portfolios[1].model_id = portfolios[2].model_id
    /\ portfolios[1].coin = portfolios[2].coin
    /\ portfolios[1].side = "short"
    /\ portfolios[2].side = "long"
    /\ portfolios[1].leverage = MaxLeverage
    /\ portfolios[2].quantity = 0

\* ---- C16
RowsOf(rows, id) == SelectSeq(rows, LAMBDA r : r.model_id = id)

ModelRow(tbl, id) == IF id \in DOMAIN tbl THEN <<tbl[id]>> ELSE << >>

\* Everything the store holds of model b is the same after the step.
C16_Untouched(b) ==
    /\ ModelRow(models', b) = ModelRow(models, b)
    /\ RowsOf(portfolios', b) = RowsOf(portfolios, b)
    /\ RowsOf(trades', b) = RowsOf(trades, b)
    /\ RowsOf(conversations', b) = RowsOf(conversations, b)
    /\ RowsOf(account_values', b) = RowsOf(account_values, b)

\* get_portfolio of model b reads the rows of b only.
C16_OwnRowsOnly ==
    \A b \in Ids, cp \in PriceMaps :
        get_portfolio(models, portfolios, trades, b, cp)
            = get_portfolio([m \in DOMAIN models \cap {b} |-> models[m]],
                            RowsOf(portfolios, b), RowsOf(trades, b), b, cp)

\* Every store method called in this state for model a, with every argument
\* list: the rows of every other model b in the table it writes are the same
\* afterwards (the other tables it does not write at all).
C16_Frame ==
    \A a \in Ids : \A b \in Ids \ {a} :
        /\ \A coin \in Coins, z \in Sizings, s \in Sides :
              RowsOf(update_position(portfolios, a, coin, z[1], z[2], z[3], s), b)
                  = RowsOf(portfolios, b)
        /\ \A coin \in Coins, s \in Sides :
              RowsOf(close_position(portfolios, a, coin, s), b) = RowsOf(portfolios, b)
        /\ \A p \in Pnls : RowsOf(add_trade(trades, a, p), b) = RowsOf(trades, b)
        /\ RowsOf(add_conversation(conversations, a, "a"), b) = RowsOf(conversations, b)
        /\ RowsOf(record_account_value(account_values, a, MaxCapital, MaxCapital, 0), b)
              = RowsOf(account_values, b)
        /\ \A e \in Edits :
              ModelRow(db_update_model(models, a, e.name, e.api_key, e.api_url,
                                       e.model_name, e.initial_capital), b)
                  = ModelRow(models, b)
        /\ ModelRow(db_delete_model(models, a), b) = ModelRow(models, b)
        /\ RowsOf(DeleteRowsOf(portfolios, a), b) = RowsOf(portfolios, b)
        /\ RowsOf(DeleteRowsOf(trades, a), b) = RowsOf(trades, b)
        /\ RowsOf(DeleteRowsOf(conversations, a), b) = RowsOf(conversations, b)
        /\ RowsOf(DeleteRowsOf(account_values, a), b) = RowsOf(account_values, b)

\* C16: a store method called for model a leaves the models row (the initial
\* capital with it), the positions, the trades, the conversations and the
\* account values of every other model b as they are, in every step of the
\* store; get_portfolio of b is computed from the rows of b alone, so it
\* returns for b what it returned before the call.
C16_CrossModelIndependence ==
    /\ [](C16_OwnRowsOnly /\ C16_Frame)
    /\ [][(\E a \in Ids : \A b \in Ids \ {a} : C16_Untouched(b))]_vars

C16_Witness ==
    /\ DOMAIN models = Ids
    /\ models[1].initial_capital # models[2].initial_capital
    /\ RowsOf(portfolios, 1) # << >>
    /\ RowsOf(trades, 2) # << >>
    /\ RowsOf(account_values, 1) # << >>

\* ---- C17
IsPrefix(s, t) == Len(s) <= Len(t) /\ \A i \in 1..Len(s) : s[i] = t[i]

\* The pnl of the rows from row n + 1 on.
C17_NewPnl(rows, n) ==
    SumSeq([i \in 1..Len(rows) |-> IF i > n THEN rows[i].pnl ELSE 0])

\* C17: in every step, for every model that has its row before and after the
\* step, the trades, the account values and the conversations of the model
\* are what they were, with rows added at the end at most; the realized pnl
\* of the model changes by the pnl of the added trades.
C17_AppendOnlyHistory ==
    [][(\A id \in DOMAIN models \cap DOMAIN models' :
          /\ IsPrefix(RowsOf(trades, id), RowsOf(trades', id))
          /\ IsPrefix(RowsOf(account_values, id), RowsOf(account_values', id))
          /\ IsPrefix(RowsOf(conversations, id), RowsOf(conversations', id))
          /\ RealizedPnl(trades', id) - RealizedPnl(trades, id)
                = C17_NewPnl(RowsOf(trades', id), Len(RowsOf(trades, id))))]_vars

C17_Witness ==
    /\ 1 \in DOMAIN models
    /\ Len(RowsOf(trades, 1)) = MaxTrades
    /\ RealizedPnl(trades, 1) # 0
    /\ RowsOf(conversations, 1) # << >>
    /\ 2 \in DOMAIN models

\* ---- C18
\* A text argument is absent or a text no row was created with.
C18_TextArgs == {None, Some("b")}
C18_CapitalArgs == {None} \cup {Some(c) : c \in Capitals}
C18_Fields == {"name", "api_key", "api_url", "model_name", "initial_capital"}

\* Every argument list of update_model over these values.
C18_AllEdits ==
    [name : C18_TextArgs, api_key : C18_TextArgs, api_url : C18_TextArgs,
     model_name : C18_TextArgs, initial_capital : C18_CapitalArgs]

\* update_model called in this state, for every model id and argument list:
\* the row of the id gets the values given and keeps every other field, and
\* no other row changes.
C18_ExactFields ==
    \A id \in Ids, e \in C18_AllEdits :
        LET after == db_update_model(models, id, e.name, e.api_key, e.api_url,
                                     e.model_name, e.initial_capital)
        IN /\ DOMAIN after = DOMAIN models
           /\ \A m \in DOMAIN models :
                 IF m = id
                 THEN \A f \in C18_Fields :
                        after[m][f] = IF IsGiven(e[f]) THEN e[f][1] ELSE models[m][f]
                 ELSE after[m] = models[m]

\* C18: the initial_capital of a model changes only in a call of update_model
\* that is given an initial_capital, which writes nothing else than the
\* models row; a write of a position, a trade, a conversation or an account
\* value leaves the models table as it is; and update_model changes exactly
\* the fields it is given.
C18_CapitalOnlyByEdit ==
    /\ []C18_ExactFields
    /\ [][(\A id \in DOMAIN models \cap DOMAIN models' :
             models'[id].initial_capital # models[id].initial_capital
             => /\ \E e \in Edits :
                      /\ IsGiven(e.initial_capital)
                      /\ e.initial_capital[1] = models'[id].initial_capital
                      /\ models' = db_update_model(models, id, e.name, e.api_key,
                                        e.api_url, e.model_name, e.initial_capital)
                /\ UNCHANGED <<nextId, portfolios, trades, histVars>>)]_vars
    /\ [][((portfolios' # portfolios \/ trades' # trades \/ histVars' # histVars)
             /\ DOMAIN models' = DOMAIN models) => models' = models]_vars

C18_Witness ==
    /\ DOMAIN models = Ids
    /\ models[1].initial_capital = 1
    /\ models[2].initial_capital = MaxCapital
    /\ Len(portfolios) = MaxPositions
    /\ conversations # << >>

\* ---- C19
\* C19: the idle sleep is entered from the registry test only, when it finds
\* the registry empty; such an iteration starts no sweep: it goes to the idle
\* sleep (or, when the statement raises, to the backoff sleep), with no cycle
\* frame of the loop, no snapshot and no store write, neither then nor while
\* it sleeps; the sleep ends at the while test, which looks at auto_trading
\* and leads to the registry test again.
C19_IdlePolicy ==
    /\ [](lpc \in {"check", "idle_sleep"} => (phase["loop"] = "Idle" /\ snapshot = << >>))
    /\ [][(lpc' = "idle_sleep" /\ lpc # "idle_sleep")
            => (lpc = "check" /\ trading_engines = << >>)]_vars
    /\ [][(lpc = "check" /\ trading_engines = << >> /\ lpc' # lpc)
            => (/\ lpc' \in {"idle_sleep", "backoff"}
                /\ UNCHANGED <<storeVars, phase, snapshot, trading_engines>>)]_vars
    /\ [][(lpc = "idle_sleep" /\ lpc' # lpc)
            => (/\ lpc' = "while"
                /\ UNCHANGED <<storeVars, phase, snapshot, trading_engines>>)]_vars
    /\ [][(lpc = "idle_sleep" => phase'["loop"] = "Idle")]_vars
    /\ [][(lpc = "while" /\ lpc' # lpc)
            => lpc' = IF auto_trading THEN "check" ELSE "stopped"]_vars

C19_Witness ==
    /\ lpc = "idle_sleep"
    /\ trading_engines # << >>
    /\ phase["req"] \in InBody

\* ---- C20
C20_NoFrame == {"idle", "respond", "add_engine", "del_engine", "exec_call"}

DeletedIds == (1..(nextId - 1)) \ DOMAIN models

\* C22: no row of portfolios, trades, conversations or account_values
\* references a model id that delete_model has removed, whatever a cycle of
\* that model that was running during the deletion writes afterwards.
C22_NoOrphanRows ==
    \A id \in DeletedIds :
        /\ RowsOf(portfolios, id) = << >>
        /\ RowsOf(trades, id) = << >>
        /\ RowsOf(conversations, id) = << >>
        /\ RowsOf(account_values, id) = << >>

\* ---- C24
\* C24: get_portfolio returns a snapshot for every existing model in every
\* state of the store update_position can produce, for every price map.
C24_ValuationTotal ==
    \A id \in DOMAIN models, cp \in PriceMaps :
        get_portfolio(models, portfolios, trades, id, cp).status = "ok"

\* ---- C21
\* delete_model(m) has completed: the row is gone and no thread is still in
\* the handler that removed it.
DeleteCompleted(m) ==
    /\ m \in DeletedIds
    /\ \A t \in Threads : ~(hid[t] = m /\ hpc[t] \in {"del_test", "del_del"})

\* C21: once a delete_model request for model m has completed, the registry
\* holds no engine for m that execute_trading registered lazily, whatever the
\* interleaving of the two requests.
C21_NoEngineOutlivesModel ==
    \A m \in Ids :
        DeleteCompleted(m) =>
            ~(m \in Keys(trading_engines) /\ writer[m] = "execute_trading")

\* ---- C23
\* No update_model request for m is between its UPDATE and its reload.
UpdatesCompleted(m) ==
    \A t \in Threads : ~(hid[t] = m /\ hpc[t] \in {"upd_get", "upd_test", "upd_set"})

\* C23: when every update_model request for a registered model has completed,
\* the credentials of the ai_trader the reload installed are the ones the
\* models table holds, whatever the interleaving of two such requests.
C23_CredentialsFollowStore ==
    \A m \in DOMAIN models :
        (/\ m \in Keys(trading_engines)
         /\ writer[m] = "update_model"
         /\ UpdatesCompleted(m)) =>
            RegistryGet(trading_engines, m).engine.ai_trader = AITrader(models[m])
====
